---- MODULE Spec2Model ----
(***************************************************************************)
(* The orchestration loop of neurofeedback.py: pull a chunk, detect a      *)
(* blink on the selected channel, refresh the sample buffer through the    *)
(* notch filter, extract the last epoch, estimate the band powers, refresh *)
(* the band-power buffer and report its column-wise mean.                  *)
(*                                                                         *)
(* The helpers of the utils module (update_buffer, get_last_data,          *)
(* compute_band_powers) are not part of src/; they are modelled from their *)
(* contracts in spec.md sections 4.1 - 4.3.                                *)
(***************************************************************************)
EXTENDS Integers, Sequences, FiniteSets

(***************************************************************************)
(* Experimental parameters (neurofeedback.py lines 22 - 38).  Durations    *)
(* that are not whole seconds are kept in tenths of a second.              *)
(***************************************************************************)
BUFFER_LENGTH == 5

EPOCH_LENGTH == 1

\* OVERLAP_LENGTH = 0.8 s, in tenths of a second
OVERLAP_TENTHS == 8

\* SHIFT_LENGTH = EPOCH_LENGTH - OVERLAP_LENGTH, in tenths of a second
SHIFT_TENTHS == 10 * EPOCH_LENGTH - OVERLAP_TENTHS

\* INDEX_CHANNEL = [0]: Python's column 0 is position 1 of a TLA+ tuple
INDEX_CHANNEL == 1

BLINK_THRESHOLD == 200

(***************************************************************************)
(* Bounds of the model.                                                    *)
(***************************************************************************)
\* nominal sampling rate reported by the stream (an input of the program)
fs == 11

\* number of loop iterations explored
MaxIter == 2

\* harness for the buffer update: capacity of the buffers it draws
HarnessLen == 2

(***************************************************************************)
(* Values a pull can deliver: the selected channel takes values around the *)
(* blink threshold, another channel of the same row takes its own values.  *)
(***************************************************************************)
Samples == {0, BLINK_THRESHOLD, 300}

OtherSamples == {0, 300}

Rows == {<<a, b>> : a \in Samples, b \in OtherSamples}

(***************************************************************************)
(* Derived sizes.                                                          *)
(***************************************************************************)
\* int(fs * BUFFER_LENGTH), rows of eeg_buffer
BufferSamples == fs * BUFFER_LENGTH

\* Mutation of EpochSamples: the sampling rate left out.
EpochSamples_noRate == EPOCH_LENGTH

\* EPOCH_LENGTH * fs, the number of samples asked of get_last_data
EpochSamples == EPOCH_LENGTH * fs

\* int(np.floor((BUFFER_LENGTH - EPOCH_LENGTH) / SHIFT_LENGTH + 1))
n_win_test == ((10 * (BUFFER_LENGTH - EPOCH_LENGTH)) \div SHIFT_TENTHS) + 1

\* int(SHIFT_LENGTH * fs).  SHIFT_LENGTH is the double 1 - 0.8 =
\* 0.19999999999999996, just below 2/10, so the product truncates to the
\* largest integer strictly below fs * 2/10.
MaxSamples == (SHIFT_TENTHS * fs - 1) \div 10

(***************************************************************************)
(* Sequence helpers.                                                       *)
(***************************************************************************)
Zeros(n) == [i \in 1..n |-> 0]

ZeroRows(n) == [i \in 1..n |-> <<0, 0, 0, 0>>]

SetMax(S) == CHOOSE x \in S : \A y \in S : y <= x

SetMin(S) == CHOOSE x \in S : \A y \in S : x <= y

Range(s) == {s[i] : i \in 1..Len(s)}

RECURSIVE SeqSum(_)
SeqSum(s) == IF s = <<>> THEN 0 ELSE Head(s) + SeqSum(Tail(s))

Abs(x) == IF x < 0 THEN -x ELSE x

\* np.array(eeg_data)[:, INDEX_CHANNEL] on a non-empty chunk
Column(chunk, c) == [i \in 1..Len(chunk) |-> chunk[i][c]]

\* max(ch_data) - min(ch_data) on a non-empty chunk
PeakToPeak(ch) == SetMax(Range(ch)) - SetMin(Range(ch))

(***************************************************************************)
(* The filter state: None, or the delay line of the filter.                *)
(***************************************************************************)
None == [active |-> FALSE, zi |-> 0]

Active(d) == [active |-> TRUE, zi |-> d]

(***************************************************************************)
(* The stateful filter of spec.md 4.1, as a first-order recursive filter   *)
(* in transposed direct form, one delay element z carried across calls:    *)
(*     y[n] = x[n] + z ;  z := -x[n] - y[n]                                *)
(* An uninitialized state starts from a zero delay line.  The output and   *)
(* the final state both depend on the state the call started from.         *)
(***************************************************************************)
RECURSIVE FilterRun(_, _, _)
FilterRun(x, z, acc) ==
    IF x = <<>>
    THEN [y |-> acc, zf |-> [active |-> TRUE, zi |-> z]]
    ELSE LET y == Head(x) + z
         IN  FilterRun(Tail(x), -Head(x) - y, Append(acc, y))

NotchFilter(x, state) ==
    FilterRun(x, IF state.active THEN state.zi ELSE 0, <<>>)

(***************************************************************************)
(* utils.update_buffer (spec.md 4.1): filter the chunk when notch is set,  *)
(* append it and truncate from the front to the buffer's length; a chunk   *)
(* of length 0 returns buffer and filter state as they were.               *)
(***************************************************************************)
update_buffer(data_buffer, new_data, notch, state) ==
    IF Len(new_data) = 0
    THEN <<data_buffer, state>>
    ELSE LET f   == IF notch THEN NotchFilter(new_data, state)
                             ELSE [y |-> new_data, zf |-> state]
             cat == data_buffer \o f.y
         IN  <<SubSeq(cat, Len(cat) - Len(data_buffer) + 1, Len(cat)), f.zf>>

(***************************************************************************)
(* utils.get_last_data (spec.md 4.2): the final n elements of the buffer.  *)
(***************************************************************************)
get_last_data(data_buffer, n) ==
    SubSeq(data_buffer, Len(data_buffer) - n + 1, Len(data_buffer))

(***************************************************************************)
(* utils.compute_band_powers (spec.md 4.3): a pure function of the epoch   *)
(* returning four non-negative scalars [delta, theta, alpha, beta].  The   *)
(* spectrum is abstracted: the epoch is detrended (mean removed, scaled by *)
(* its length to stay integral), band b aggregates the variation of the    *)
(* detrended epoch at lag b, and the aggregate is log-compressed above a   *)
(* floor of 1.                                                             *)
(***************************************************************************)
RECURSIVE ILog2(_)
ILog2(x) == IF x <= 1 THEN 0 ELSE 1 + ILog2(x \div 2)

Detrend(epoch) ==
    [i \in 1..Len(epoch) |-> Len(epoch) * epoch[i] - SeqSum(epoch)]

BandEnergy(d, lag) ==
    SeqSum([i \in 1..(IF Len(d) > lag THEN Len(d) - lag ELSE 0)
               |-> Abs(d[i + lag] - d[i])])

compute_band_powers(epoch, rate) ==
    LET d == Detrend(epoch)
    IN  [b \in 1..4 |-> 1 + ILog2(1 + BandEnergy(d, b))]

(***************************************************************************)
(* np.mean(band_buffer, axis=0): the column sums over the number of rows,  *)
(* kept as exact fractions.                                                *)
(***************************************************************************)
ColumnMean(buffer) ==
    [c \in 1..4 |-> [num |-> SeqSum([i \in 1..Len(buffer) |-> buffer[i][c]]),
                     den |-> Len(buffer)]]

(***************************************************************************)
(* State.                                                                  *)
(***************************************************************************)
VARIABLES
    pc,                  \* statement of the loop body to run next
    status,              \* "running", "closed" (Closing! printed), or the
                         \* name of the uncaught exception that ended the run
    iter,                \* completed iterations
    eeg_data,            \* the chunk of the last pull, rows of channels
    ch_data,             \* the selected channel of eeg_data
    signal_diff,
    eeg_buffer,
    filter_state,
    data_epoch,
    band_powers,
    band_buffer,
    smooth_band_powers,
    presses,             \* calls of pyautogui.press('space') so far
    log,                 \* every chunk returned by pull_chunk, in order
    appended,            \* every row handed to the band-buffer update
    interrupted          \* a KeyboardInterrupt has been delivered

vars == <<pc, status, iter, eeg_data, ch_data, signal_diff, eeg_buffer,
          filter_state, data_epoch, band_powers, band_buffer,
          smooth_band_powers, presses, log, appended, interrupted>>

\* State on entry to the while loop (lines 62 - 79).  The names the loop
\* body binds (eeg_data ... smooth_band_powers) do not exist yet; they
\* start at fixed values that no statement reads before assigning them.
Init ==
    /\ pc = "pull"
    /\ status = "running"
    /\ iter = 0
    /\ eeg_data = <<>>
    /\ ch_data = <<>>
    /\ signal_diff = 0
    /\ eeg_buffer = Zeros(BufferSamples)
    /\ filter_state = None
    /\ data_epoch = <<>>
    /\ band_powers = <<0, 0, 0, 0>>
    /\ band_buffer = ZeroRows(n_win_test)
    /\ smooth_band_powers = ColumnMean(ZeroRows(n_win_test))
    /\ presses = 0
    /\ log = <<>>
    /\ appended = <<>>
    /\ interrupted = FALSE

\* 3.1 inlet.pull_chunk(timeout=1, max_samples=int(SHIFT_LENGTH * fs)):
\* any number of rows from none to max_samples.
Pull ==
    /\ status = "running"
    /\ pc = "pull"
    /\ iter < MaxIter
    /\ \E n \in 0..MaxSamples : \E chunk \in [1..n -> Rows] :
          /\ eeg_data' = chunk
          /\ log' = Append(log, chunk)
    /\ pc' = "select"
    /\ UNCHANGED <<status, iter, ch_data, signal_diff, eeg_buffer,
                   filter_state, data_epoch, band_powers, band_buffer,
                   smooth_band_powers, presses, appended, interrupted>>

\* ch_data = np.array(eeg_data)[:, INDEX_CHANNEL].  np.array([]) has one
\* dimension, so indexing it with two raises IndexError, which the
\* except KeyboardInterrupt clause does not catch.
SelectChannel ==
    /\ status = "running"
    /\ pc = "select"
    /\ IF Len(eeg_data) = 0
       THEN /\ status' = "IndexError"
            /\ UNCHANGED <<pc, ch_data>>
       ELSE /\ ch_data' = Column(eeg_data, INDEX_CHANNEL)
            /\ pc' = "detect"
            /\ UNCHANGED status
    /\ UNCHANGED <<iter, eeg_data, signal_diff, eeg_buffer, filter_state,
                   data_epoch, band_powers, band_buffer, smooth_band_powers,
                   presses, log, appended, interrupted>>

\* if signal_diff > BLINK_THRESHOLD (mutation: the boundary included)
ExceedsOrEquals(diff, threshold) == diff >= threshold

\* if signal_diff > BLINK_THRESHOLD
Exceeds(diff, threshold) == diff > threshold

\* Mutation of DetectBlink: a refractory rule, no press when the previous
\* chunk already exceeded the threshold.
DetectBlink_debounced ==
    /\ status = "running"
    /\ pc = "detect"
    /\ Len(ch_data) > 0
    /\ signal_diff' = PeakToPeak(ch_data)
    /\ presses' = IF /\ signal_diff' > BLINK_THRESHOLD
                     /\ ~(signal_diff > BLINK_THRESHOLD)
                  THEN presses + 1 ELSE presses
    /\ pc' = "update_eeg"
    /\ UNCHANGED <<status, iter, eeg_data, ch_data, eeg_buffer, filter_state,
                   data_epoch, band_powers, band_buffer, smooth_band_powers,
                   log, appended, interrupted>>

\* 3.2 signal_diff = max(ch_data) - min(ch_data); press space when it
\* exceeds BLINK_THRESHOLD.  max() of an empty sequence raises ValueError.
DetectBlink ==
    /\ status = "running"
    /\ pc = "detect"
    /\ IF Len(ch_data) = 0
       THEN /\ status' = "ValueError"
            /\ UNCHANGED <<pc, signal_diff, presses>>
       ELSE /\ signal_diff' = PeakToPeak(ch_data)
            /\ presses' = IF Exceeds(signal_diff', BLINK_THRESHOLD)
                          THEN presses + 1 ELSE presses
            /\ pc' = "update_eeg"
            /\ UNCHANGED status
    /\ UNCHANGED <<iter, eeg_data, ch_data, eeg_buffer, filter_state,
                   data_epoch, band_powers, band_buffer, smooth_band_powers,
                   log, appended, interrupted>>

\* What every variant of the sample-buffer update leaves alone.
EegUpdateFrame ==
    /\ status = "running"
    /\ pc = "update_eeg"
    /\ pc' = "epoch"
    /\ UNCHANGED <<status, iter, eeg_data, ch_data, signal_diff, data_epoch,
                   band_powers, band_buffer, smooth_band_powers, presses,
                   log, appended, interrupted>>

\* Mutation of UpdateEegBuffer: buffer and chunk passed in the wrong order.
UpdateEegBuffer_swapped ==
    /\ EegUpdateFrame
    /\ LET r == update_buffer(ch_data, eeg_buffer, TRUE, filter_state)
       IN  /\ eeg_buffer' = r[1]
           /\ filter_state' = r[2]

\* Mutation of UpdateEegBuffer: notch left at its default, the raw chunk
\* goes into the buffer.
UpdateEegBuffer_unfiltered ==
    /\ EegUpdateFrame
    /\ LET r == update_buffer(eeg_buffer, ch_data, FALSE, filter_state)
       IN  /\ eeg_buffer' = r[1]
           /\ filter_state' = r[2]

\* Mutation of UpdateEegBuffer: filter_state not passed, every call starts
\* from the default None.
UpdateEegBuffer_stateless ==
    /\ EegUpdateFrame
    /\ LET r == update_buffer(eeg_buffer, ch_data, TRUE, None)
       IN  /\ eeg_buffer' = r[1]
           /\ filter_state' = r[2]

\* 3.3 eeg_buffer, filter_state = utils.update_buffer(
\*         eeg_buffer, ch_data, notch=True, filter_state=filter_state)
UpdateEegBuffer ==
    /\ status = "running"
    /\ pc = "update_eeg"
    /\ LET r == update_buffer(eeg_buffer, ch_data, TRUE, filter_state)
       IN  /\ eeg_buffer' = r[1]
           /\ filter_state' = r[2]
    /\ pc' = "epoch"
    /\ UNCHANGED <<status, iter, eeg_data, ch_data, signal_diff, data_epoch,
                   band_powers, band_buffer, smooth_band_powers, presses,
                   log, appended, interrupted>>

\* data_epoch = utils.get_last_data(eeg_buffer, EPOCH_LENGTH * fs)
GetEpoch ==
    /\ status = "running"
    /\ pc = "epoch"
    /\ data_epoch' = get_last_data(eeg_buffer, EpochSamples)
    /\ pc' = "band_powers"
    /\ UNCHANGED <<status, iter, eeg_data, ch_data, signal_diff, eeg_buffer,
                   filter_state, band_powers, band_buffer,
                   smooth_band_powers, presses, log, appended, interrupted>>

\* band_powers = utils.compute_band_powers(data_epoch, fs)
ComputeBandPowers ==
    /\ status = "running"
    /\ pc = "band_powers"
    /\ band_powers' = compute_band_powers(data_epoch, fs)
    /\ pc' = "update_band"
    /\ UNCHANGED <<status, iter, eeg_data, ch_data, signal_diff, eeg_buffer,
                   filter_state, data_epoch, band_buffer,
                   smooth_band_powers, presses, log, appended, interrupted>>

\* Mutation of UpdateBandBuffer: the second result bound to filter_state
\* instead of being discarded.
UpdateBandBuffer_keepsState ==
    /\ status = "running"
    /\ pc = "update_band"
    /\ LET r == update_buffer(band_buffer, <<band_powers>>, FALSE, None)
       IN  /\ band_buffer' = r[1]
           /\ filter_state' = r[2]
    /\ appended' = Append(appended, band_powers)
    /\ pc' = "mean"
    /\ UNCHANGED <<status, iter, eeg_data, ch_data, signal_diff, eeg_buffer,
                   data_epoch, band_powers, smooth_band_powers, presses, log,
                   interrupted>>

\* band_buffer, _ = utils.update_buffer(band_buffer,
\*                                      np.asarray([band_powers]))
UpdateBandBuffer ==
    /\ status = "running"
    /\ pc = "update_band"
    /\ band_buffer' = update_buffer(band_buffer, <<band_powers>>, FALSE, None)[1]
    /\ appended' = Append(appended, band_powers)
    /\ pc' = "mean"
    /\ UNCHANGED <<status, iter, eeg_data, ch_data, signal_diff, eeg_buffer,
                   filter_state, data_epoch, band_powers,
                   smooth_band_powers, presses, log, interrupted>>

\* smooth_band_powers = np.mean(band_buffer, axis=0); print; loop.
Smooth ==
    /\ status = "running"
    /\ pc = "mean"
    /\ smooth_band_powers' = ColumnMean(band_buffer)
    /\ iter' = iter + 1
    /\ pc' = "pull"
    /\ UNCHANGED <<status, eeg_data, ch_data, signal_diff, eeg_buffer,
                   filter_state, data_epoch, band_powers, band_buffer,
                   presses, log, appended, interrupted>>

\* Mutation of Interrupt: the exception handled inside the loop body, the
\* loop starts its next iteration.
Interrupt_swallowed ==
    /\ status = "running"
    /\ interrupted' = TRUE
    /\ pc' = "pull"
    /\ UNCHANGED <<status, iter, eeg_data, ch_data, signal_diff, eeg_buffer,
                   filter_state, data_epoch, band_powers, band_buffer,
                   smooth_band_powers, presses, log, appended>>

\* Ctrl-C anywhere inside the try block: KeyboardInterrupt unwinds to the
\* except clause (lines 128 - 129), which prints 'Closing!' and falls off
\* the end of the script.
Interrupt ==
    /\ status = "running"
    /\ status' = "closed"
    /\ interrupted' = TRUE
    /\ UNCHANGED <<pc, iter, eeg_data, ch_data, signal_diff, eeg_buffer,
                   filter_state, data_epoch, band_powers, band_buffer,
                   smooth_band_powers, presses, log, appended>>

Next ==
    \/ Pull
    \/ SelectChannel
    \/ DetectBlink
    \/ UpdateEegBuffer
    \/ GetEpoch
    \/ ComputeBandPowers
    \/ UpdateBandBuffer
    \/ Smooth
    \/ Interrupt

Spec == Init /\ [][Next]_vars

(***************************************************************************)
(* The buffer update on arbitrary arguments: a buffer of HarnessLen        *)
(* elements, a chunk of 0 to HarnessLen + 1 elements (empty, shorter than, *)
(* equal to and longer than the buffer), and a filter state that is        *)
(* uninitialized or active.  One step performs the loop's update of the    *)
(* sample buffer (filtering) or of the band-power buffer (one row, no      *)
(* filtering).                                                             *)
(***************************************************************************)
HarnessValues == {0, 1}

HarnessStates == {None} \cup {Active(d) : d \in {-1, 0, 1}}

HarnessChunks == UNION {[1..n -> HarnessValues] : n \in 0..(HarnessLen + 1)}

HarnessRows == {<<1, 1, 1, 1>>, <<2, 1, 3, 1>>, <<4, 3, 2, 1>>}

InitUpdate ==
    /\ status = "running"
    /\ iter = 0
    /\ eeg_data = <<>>
    /\ signal_diff = 0
    /\ data_epoch = <<>>
    /\ presses = 0
    /\ log = <<>>
    /\ appended = <<>>
    /\ interrupted = FALSE
    /\ \/ /\ pc = "update_eeg"
          /\ eeg_buffer \in [1..HarnessLen -> HarnessValues]
          /\ ch_data \in HarnessChunks
          /\ filter_state \in HarnessStates
          /\ band_buffer = ZeroRows(HarnessLen)
          /\ band_powers = <<0, 0, 0, 0>>
       \/ /\ pc = "update_band"
          /\ eeg_buffer = Zeros(HarnessLen)
          /\ ch_data = <<>>
          /\ filter_state \in HarnessStates
          /\ band_buffer \in [1..HarnessLen -> HarnessRows]
          /\ band_powers \in HarnessRows
    /\ smooth_band_powers = ColumnMean(band_buffer)

NextUpdate ==
    \/ UpdateEegBuffer
    \/ UpdateBandBuffer

SpecUpdate == InitUpdate /\ [][NextUpdate]_vars

(***************************************************************************)
(* Vocabulary of the properties.                                           *)
(***************************************************************************)
\* the selected channel of a pulled chunk differs by more than the
\* threshold between two of its samples
OverThreshold(chunk) ==
    \E i, j \in 1..Len(chunk) :
        chunk[i][INDEX_CHANNEL] - chunk[j][INDEX_CHANNEL] > BLINK_THRESHOLD

\* the pulled chunks the detector has already judged
Judged == IF pc \in {"select", "detect"} THEN Len(log) - 1 ELSE Len(log)

\* an iteration has got past the update of the sample buffer
PastEegUpdate == pc \in {"epoch", "band_powers", "update_band", "mean"}

\* chunk holds one sample at 300 on the selected channel and 0 elsewhere
OneSpikeAt300(chunk) ==
    /\ Len(chunk) >= 2
    /\ \E i \in 1..Len(chunk) :
          /\ chunk[i][INDEX_CHANNEL] = 300
          /\ \A j \in 1..Len(chunk) : j # i => chunk[j][INDEX_CHANNEL] = 0

\* the largest difference on the selected channel is exactly the threshold
AtThreshold(chunk) ==
    /\ \E i, j \in 1..Len(chunk) :
          chunk[i][INDEX_CHANNEL] - chunk[j][INDEX_CHANNEL] = BLINK_THRESHOLD
    /\ ~OverThreshold(chunk)

\* new is old with chunk pushed in at the end and the oldest dropped,
\* element by element
DropOldest(old, chunk, new) ==
    LET L == Len(old)
        M == Len(chunk)
    IN  /\ Len(new) = L
        /\ \A i \in 1..L :
              new[i] = IF M <= L
                       THEN (IF i <= L - M THEN old[i + M]
                                           ELSE chunk[i - (L - M)])
                       ELSE chunk[M - L + i]

(***************************************************************************)
(* C1: in every reachable state of the loop the sample buffer holds        *)
(* exactly fs * BUFFER_LENGTH elements and the band-power buffer exactly   *)
(* floor((BUFFER_LENGTH - EPOCH_LENGTH) / SHIFT_LENGTH + 1) rows of four   *)
(* values, whatever the lengths of the chunks pulled so far.               *)
(***************************************************************************)
C1_BufferLengthsNeverChange ==
    /\ Len(eeg_buffer) = fs * BUFFER_LENGTH
    /\ Len(band_buffer) =
          ((10 * (BUFFER_LENGTH - EPOCH_LENGTH))
              \div (10 * EPOCH_LENGTH - OVERLAP_TENTHS)) + 1
    /\ \A r \in 1..Len(band_buffer) : Len(band_buffer[r]) = 4

\* two iterations done, one on a short chunk and one on a full chunk
C1_Witness ==
    /\ iter >= 2
    /\ \E i, j \in 1..Len(log) : Len(log[i]) = 1 /\ Len(log[j]) = MaxSamples
    /\ eeg_buffer # Zeros(Len(eeg_buffer))

(***************************************************************************)
(* C2: a pull that returns an empty chunk raises no error: no blink, no    *)
(* trigger, and the loop goes on to the next pull.  (Refuted by the code:  *)
(* the channel selection raises IndexError on the empty chunk.)            *)
(***************************************************************************)
C2_EmptyChunkTolerated ==
    (log # <<>> /\ Len(log[Len(log)]) = 0) => status \in {"running", "closed"}

(***************************************************************************)
(* C3: on a non-empty chunk the detection step presses the key exactly     *)
(* when max - min of the selected channel is strictly above the threshold: *)
(* a difference equal to the threshold presses nothing, one sample at 300  *)
(* among zeros presses once.                                               *)
(***************************************************************************)
C3_TriggerIffAboveThreshold ==
    [][(pc = "detect" /\ pc' = "update_eeg") =>
          /\ presses' \in {presses, presses + 1}
          /\ (presses' = presses + 1) <=> OverThreshold(eeg_data)
          /\ AtThreshold(eeg_data) => presses' = presses
          /\ OneSpikeAt300(eeg_data) => presses' = presses + 1
          /\ signal_diff' > BLINK_THRESHOLD <=> OverThreshold(eeg_data)]_vars

\* a chunk exactly at the threshold went by without a press, then the
\* chunk with one sample at 300 was judged and pressed
C3_Witness ==
    /\ pc = "update_eeg"
    /\ Len(log) = 2
    /\ AtThreshold(log[1])
    /\ OneSpikeAt300(log[2])
    /\ presses = 1

(***************************************************************************)
(* C4: detection is stateless and undebounced: at every moment the number  *)
(* of presses equals the number of chunks judged so far whose selected     *)
(* channel exceeds the threshold peak to peak, one press per such chunk,   *)
(* whatever preceded it.                                                   *)
(***************************************************************************)
C4_OnePressPerOverThresholdChunk ==
    presses = Cardinality({i \in 1..Judged : OverThreshold(log[i])})

\* two consecutive chunks above the threshold, two presses
C4_Witness ==
    /\ Len(log) = 2
    /\ OverThreshold(log[1])
    /\ OverThreshold(log[2])
    /\ presses = 2

(***************************************************************************)
(* C5: each buffer update is drop-oldest: the new buffer is the last L     *)
(* elements of the old buffer followed by the (filtered) chunk; for a      *)
(* chunk longer than the buffer nothing of the old buffer survives.        *)
(***************************************************************************)
C5_UpdateIsDropOldest ==
    [][/\ (pc = "update_eeg" /\ pc' = "epoch") =>
             DropOldest(eeg_buffer, NotchFilter(ch_data, filter_state).y,
                        eeg_buffer')
       /\ (pc = "update_band" /\ pc' = "mean") =>
             DropOldest(band_buffer, <<band_powers>>, band_buffer')]_vars

\* the sample buffer after absorbing a chunk longer than itself
C5_Witness ==
    /\ pc = "epoch"
    /\ Len(ch_data) > Len(eeg_buffer)
    /\ eeg_buffer # Zeros(Len(eeg_buffer))

C7_FilterStateThreaded ==
    /\ []((iter = 0 /\ ~PastEegUpdate) => filter_state = None)
    /\ []((iter > 0 \/ PastEegUpdate) => filter_state.active)
    /\ [][/\ filter_state.active => filter_state'.active
          /\ filter_state' # filter_state =>
                /\ pc = "update_eeg"
                /\ filter_state' = NotchFilter(ch_data, filter_state).zf
          /\ pc = "update_band" => filter_state' = filter_state]_vars

\* the second band-buffer update done with the filter state still the one
\* the second sample-buffer update returned
C7_Witness ==
    /\ iter = 1
    /\ pc = "mean"
    /\ filter_state.active
    /\ filter_state.zi # 0

(***************************************************************************)
(* C8: the epoch handed to the band-power estimator is exactly the final   *)
(* EPOCH_LENGTH * fs elements of the sample buffer as it stands after the  *)
(* iteration's update, the band powers are those of that epoch, and the    *)
(* buffer is never shorter than an epoch.                                  *)
(***************************************************************************)
C8_EpochIsBufferTail ==
    LET n == EPOCH_LENGTH * fs
    IN  /\ n <= Len(eeg_buffer)
        /\ pc \in {"band_powers", "update_band", "mean"} =>
              /\ Len(data_epoch) = n
              /\ \A i \in 1..n :
                    data_epoch[i] = eeg_buffer[Len(eeg_buffer) - n + i]
        /\ pc \in {"update_band", "mean"} =>
              band_powers = compute_band_powers(data_epoch, fs)

\* the epoch of the second iteration ends on a freshly filtered sample
C8_Witness ==
    /\ pc = "band_powers"
    /\ iter = 1
    /\ Len(data_epoch) > 0
    /\ data_epoch[Len(data_epoch)] # 0

(***************************************************************************)
(* C9: exactly one band-power vector is appended per loop iteration,       *)
(* whatever the length of the chunk, and the reported value is the         *)
(* column-wise mean over all rows of the band-power buffer, zero rows      *)
(* included.  (Refuted by the code for a chunk of length 0: the iteration  *)
(* ends in IndexError before anything is appended.)                        *)
(***************************************************************************)
C9_OneVectorPerIteration ==
    /\ (pc = "pull" \/ status \notin {"running", "closed"}) =>
          Len(appended) = Len(log)
    /\ pc = "pull" =>
          /\ band_buffer =
                get_last_data(ZeroRows(n_win_test) \o appended, n_win_test)
          /\ \A c \in 1..4 :
                /\ smooth_band_powers[c].den = n_win_test
                /\ smooth_band_powers[c].num =
                      SeqSum([r \in 1..n_win_test |-> band_buffer[r][c]])

(***************************************************************************)
(* The part of C9 that the code does satisfy: after every completed        *)
(* iteration the band-power buffer is the last n_win_test rows of the      *)
(* zero rows followed by one row per completed iteration, and the reported *)
(* value is the sum of each column over n_win_test.                        *)
(***************************************************************************)
SmoothedIsMeanAfterCompletedIterations ==
    pc = "pull" =>
       /\ Len(appended) = iter
       /\ band_buffer =
             get_last_data(ZeroRows(n_win_test) \o appended, n_win_test)
       /\ \A c \in 1..4 :
             /\ smooth_band_powers[c].den = n_win_test
             /\ smooth_band_powers[c].num =
                   SeqSum([r \in 1..n_win_test |-> band_buffer[r][c]])
             /\ iter < n_win_test =>
                   smooth_band_powers[c].num =
                      SeqSum([r \in 1..iter |-> appended[r][c]])

(***************************************************************************)
(* C10: an interrupt delivered anywhere in the loop ends the run in the    *)
(* except clause (no uncaught error), and from then on no chunk is pulled, *)
(* no key is pressed and no buffer or filter state changes.                *)
(***************************************************************************)
C10_InterruptEndsLoop ==
    /\ [](interrupted => status = "closed")
    /\ [][interrupted =>
             UNCHANGED <<log, presses, eeg_buffer, filter_state, band_buffer,
                         appended, smooth_band_powers, pc, iter>>]_vars

\* interrupted between the sample-buffer and the band-buffer update
C10_Witness ==
    /\ interrupted
    /\ status = "closed"
    /\ pc = "update_band"
    /\ iter = 1

====
